---- MODULE Spec2Model ----
(***************************************************************************)
(* Fit/transform stages of src/transformers.py as state machines.          *)
(*                                                                         *)
(* One transformer object is under study at a time: kind names its class,  *)
(* obj holds its attributes (constructor arguments and, once fitted, the   *)
(* learned ones), and the remaining variables record the last call.        *)
(*                                                                         *)
(* A table (pandas DataFrame) is [n |-> number of rows, col |-> function   *)
(* from column name to the sequence of its n cells].  Rows carry the       *)
(* default RangeIndex: position i of a sequence is index label i-1.        *)
(* Column order is not modelled.  A cell is NaN, a number (an exact        *)
(* rational; float rounding is not modelled), a string, or a symbolic      *)
(* value for the results that are not rational (cosines, z-scores).        *)
(***************************************************************************)
EXTENDS Integers, Sequences, FiniteSets, TLC

VARIABLES
    kind,   \* class of the transformer object
    obj,    \* its attributes (self.*)
    pc,     \* "new" after __init__, "fitted" after fit, "raised" when fit raised
    fit0,   \* the table fit was called with
    inp,    \* the table the last transform was called with, as passed
    arg,    \* the caller's table object after that call (in-place effects)
    out,    \* the result of the last call: a table, or the exception raised
    again   \* TRUE when inp was the previous call's result

vars == <<kind, obj, pc, fit0, inp, arg, out, again>>

----------------------------------------------------------------------------
(* Cells *)

NaN == [k |-> "nan"]
Str(s) == [k |-> "str", s |-> s]

RECURSIVE GCD(_, _)
GCD(a, b) == IF b = 0 THEN a ELSE GCD(b, a % b)

Abs(x) == IF x < 0 THEN -x ELSE x

\* the rational n/d (d # 0) in lowest terms with a positive denominator
Rat(n, d) ==
    LET g == GCD(Abs(n), Abs(d))
        s == IF d < 0 THEN -1 ELSE 1
    IN  [k |-> "num", n |-> (s * n) \div g, d |-> (s * d) \div g]

Num(i) == [k |-> "num", n |-> i, d |-> 1]

IsNum(v) == v.k = "num"
IsNa(v) == v.k = "nan"

Less(a, b) == a.n * b.d < b.n * a.d
Add(a, b) == Rat(a.n * b.d + b.n * a.d, a.d * b.d)
Sub(a, b) == Rat(a.n * b.d - b.n * a.d, a.d * b.d)
Mul(a, b) == Rat(a.n * b.n, a.d * b.d)

----------------------------------------------------------------------------
(* Tables *)

NoTable == [n |-> 0, col |-> << >>]

Columns(X) == DOMAIN X.col
Index(X) == 1..X.n

\* X.drop(columns=cs) for labels that are all present
Drop(X, cs) == [n |-> X.n, col |-> [c \in Columns(X) \ cs |-> X.col[c]]]

\* X[c] = s
SetCol(X, c, s) == [n |-> X.n, col |-> [X.col EXCEPT ![c] = s]]

Ok(X) == [status |-> "ok", table |-> X]
Raised(e) == [status |-> e, table |-> NoTable]
NoResult == [status |-> "none", table |-> NoTable]

\* no transformer object has been constructed yet
InitNone ==
    /\ kind = "none"
    /\ obj = << >>
    /\ pc = "none"
    /\ fit0 = NoTable
    /\ inp = NoTable
    /\ arg = NoTable
    /\ out = NoResult
    /\ again = FALSE

\* sum of the numbers of a sequence at the positions of I
RECURSIVE SumAt(_, _)
SumAt(s, I) ==
    IF I = {} THEN Num(0)
    ELSE LET i == CHOOSE j \in I : TRUE
         IN  Add(s[i], SumAt(s, I \ {i}))

Present(s) == {i \in DOMAIN s : IsNum(s[i])}

\* Series.mean(): the mean of the present values, NaN when there is none
Mean(s) ==
    IF Present(s) = {} THEN NaN
    ELSE Mul(SumAt(s, Present(s)), Rat(1, Cardinality(Present(s))))

\* Series.fillna(v) with a scalar v
FillNa(s, v) == [i \in DOMAIN s |-> IF IsNa(s[i]) THEN v ELSE s[i]]

----------------------------------------------------------------------------
(* DropNaRate *)

\* bounds of the tables and rates DropNaRate is exercised on
DropRows == 5
DropRates == {Num(0), Rat(1, 2)}
DropCells == {NaN, Num(1)}

\* column "a" takes every pattern of missing entries, column "b" is wholly
\* missing or wholly present
DropTables ==
    UNION {
        {[n |-> n, col |-> [c \in {"a"} |-> a]] : a \in [1..n -> DropCells]}
        \cup {[n |-> n, col |-> [c \in {"b"} |-> [i \in 1..n |-> v]]] : v \in DropCells}
        \cup {[n |-> n, col |-> [c \in {"a", "b"} |->
                                   IF c = "a" THEN a ELSE [i \in 1..n |-> v]]] :
                  a \in [1..n -> DropCells], v \in DropCells}
        : n \in 0..DropRows}

\* X.isna().sum() / X.shape[0] for one column; 0/0 is NaN
perc_na(X, c) ==
    IF X.n = 0 THEN NaN
    ELSE Rat(Cardinality({i \in Index(X) : IsNa(X.col[c][i])}), X.n)

ExceedsRateOrEqual(p, rate) == IsNum(p) /\ ~Less(p, rate)

\* perc_na > self.rate; a NaN fraction compares False
ExceedsRate(p, rate) == IsNum(p) /\ Less(rate, p)

DropNaRate_init(rate) ==
    /\ kind = "none"
    /\ kind' = "DropNaRate"
    /\ obj' = [rate |-> rate]
    /\ pc' = "new"
    /\ UNCHANGED <<fit0, inp, arg, out, again>>

DropNaRate_fit(X) ==
    /\ kind = "DropNaRate"
    /\ pc = "new"
    /\ obj' = [rate |-> obj.rate,
               cols_to_drop |-> {c \in Columns(X) : ExceedsRate(perc_na(X, c), obj.rate)}]
    /\ pc' = "fitted"
    /\ fit0' = X
    /\ UNCHANGED <<kind, inp, arg, out, again>>

\* DataFrame.drop without errors='ignore' raises KeyError on an absent label
DropNaRate_drop(X, cols_to_drop) ==
    IF cols_to_drop \subseteq Columns(X)
    THEN Ok(Drop(X, cols_to_drop))
    ELSE Raised("KeyError")

DropNaRate_transform(X) ==
    /\ kind = "DropNaRate"
    /\ pc = "fitted"
    /\ inp' = X
    /\ arg' = X
    /\ out' = DropNaRate_drop(X, obj.cols_to_drop)
    /\ again' = FALSE
    /\ UNCHANGED <<kind, obj, pc, fit0>>

NextDropNa ==
    \/ \E r \in DropRates : DropNaRate_init(r)
    \/ pc = "new" /\ \E X \in DropTables : DropNaRate_fit(X)
    \/ out = NoResult /\ pc = "fitted" /\ \E X \in DropTables : DropNaRate_transform(X)

\* construct, fit once, transform once
SpecDropNa == InitNone /\ [][NextDropNa]_vars

\* the entries of column c of X that are missing
MissingIn(X, c) == {i \in Index(X) : X.col[c] [i] = NaN}

\* C2: fit records exactly the columns whose fraction of missing entries is
\* strictly greater than the rate, and transform of the fitted table returns
\* it without the recorded columns and with every other column kept.
C2_DropNaRateDropsExactlyAboveRate ==
    (kind = "DropNaRate" /\ pc = "fitted") =>
        /\ obj.cols_to_drop =
               {c \in Columns(fit0) :
                   /\ fit0.n > 0
                   /\ Cardinality(MissingIn(fit0, c)) * obj.rate.d > obj.rate.n * fit0.n}
        /\ (out # NoResult /\ inp = fit0) =>
               /\ out.status = "ok"
               /\ Columns(out.table) = Columns(fit0) \ obj.cols_to_drop
               /\ \A c \in Columns(out.table) : out.table.col[c] = fit0.col[c]

\* C2 witness: a column with 4 of 5 entries missing and rate 1/2 is recorded
\* and absent from the output, next to a column that is kept.
C2_Witness ==
    /\ kind = "DropNaRate" /\ pc = "fitted"
    /\ obj.rate = Rat(1, 2)
    /\ fit0.n = 5
    /\ Columns(fit0) = {"a", "b"}
    /\ Cardinality(MissingIn(fit0, "a")) = 4
    /\ inp = fit0
    /\ out.status = "ok"
    /\ "a" \in obj.cols_to_drop
    /\ Columns(out.table) = {"b"}

\* C3: transform on a table that lacks some recorded column does not raise;
\* the recorded columns that are present are dropped.
C3_AbsentRecordedColumnsTolerated ==
    (kind = "DropNaRate" /\ out # NoResult
        /\ ~(obj.cols_to_drop \subseteq Columns(inp))) =>
        /\ out.status = "ok"
        /\ Columns(out.table) = Columns(inp) \ obj.cols_to_drop

----------------------------------------------------------------------------
(* AltitudeTrans *)

AltColumns == <<"piezo_station_altitude", "meteo_altitude">>

\* Series.max(): the largest present value, NaN when there is none
Max(s) ==
    IF Present(s) = {} THEN NaN
    ELSE s[CHOOSE i \in Present(s) : \A j \in Present(s) : ~Less(s[i], s[j])]

\* the numbers of the set S in ascending order
RECURSIVE Sorted(_)
Sorted(S) ==
    IF S = {} THEN << >>
    ELSE LET m == CHOOSE v \in S : \A w \in S : ~Less(w, v)
         IN  <<m>> \o Sorted(S \ {m})

\* one column of X[cols][(X[cols] >= 0) & (X[cols] <= max)].mode(): the most
\* frequent of the values kept by the mask, ascending
Modes(s, max) ==
    LET kept == {i \in Present(s) : ~Less(s[i], Num(0)) /\ ~Less(max, s[i])}
        count(v) == Cardinality({i \in kept : s[i] = v})
        vals == {s[i] : i \in kept}
    IN  Sorted({v \in vals : \A w \in vals : count(w) <= count(v)})

\* the column names of the set S as a list; the order among them is the one
\* fixed below, since column order is not modelled
RECURSIVE ColumnOrder(_)
ColumnOrder(S) ==
    IF S = {} THEN << >>
    ELSE LET c == CHOOSE x \in S : TRUE
         IN  <<c>> \o ColumnOrder(S \ {c})

\* DataFrame.mode() pads the shorter columns with NaN
Padded(s, len) == [i \in 1..len |-> IF i <= Len(s) THEN s[i] ELSE NaN]

SeqRange(cols) == {cols[i] : i \in DOMAIN cols}

AltFitParams(columns, X) ==
    LET cs == SeqRange(columns)
        max == [c \in cs |-> Max(X.col[c])]
        modes == [c \in cs |-> Modes(X.col[c], max[c])]
        longest == CHOOSE l \in {Len(modes[c]) : c \in cs} \cup {0} :
                       \A c \in cs : Len(modes[c]) <= l
    IN  [max_altitude |-> max,
         most_frequent |-> [c \in cs |-> Padded(modes[c], longest)],
         mean |-> [c \in cs |-> Mean(X.col[c])]]

\* Series.clip(upper=m): a missing threshold clips nothing
Clip(s, m) ==
    [i \in DOMAIN s |-> IF IsNum(m) /\ IsNum(s[i]) /\ Less(m, s[i]) THEN m ELSE s[i]]

\* the value a Series assigned through .loc gives row i: the Series is
\* aligned on the row labels, and a label it lacks receives NaN
Aligned(series, i) == IF i \in DOMAIN series THEN series[i] ELSE NaN

\* X.loc[X[col] < 0, col] = most_frequent
ReplaceNegative(s, most_frequent) ==
    [i \in DOMAIN s |->
        IF IsNum(s[i]) /\ Less(s[i], Num(0)) THEN Aligned(most_frequent, i) ELSE s[i]]

\* the two in-place statements of one loop iteration
AltInPlace(p, X, c) ==
    SetCol(X, c, ReplaceNegative(Clip(X.col[c], p.max_altitude[c]), p.most_frequent[c]))

\* X.fillna(v): every column of the table
FillNaAll(X, v) ==
    [n |-> X.n, col |-> [c \in Columns(X) |-> IF IsNa(v) THEN X.col[c] ELSE FillNa(X.col[c], v)]]

\* the loop of transform from its k-th column on
RECURSIVE AltLoop(_, _, _, _)
AltLoop(p, columns, X, k) ==
    IF k > Len(columns) THEN X
    ELSE AltLoop(p, columns, FillNaAll(AltInPlace(p, X, columns[k]), p.mean[columns[k]]), k + 1)

AltApply(p, columns, X) ==
    IF SeqRange(columns) \subseteq Columns(X)
    THEN Ok(AltLoop(p, columns, X, 1))
    ELSE Raised("KeyError")

\* the first iteration assigns into the caller's table before X is rebound
AltCaller(p, columns, X) ==
    IF columns # << >> /\ columns[1] \in Columns(X)
    THEN AltInPlace(p, X, columns[1])
    ELSE X

AltitudeTrans_init(columns) ==
    /\ kind = "none"
    /\ kind' = "AltitudeTrans"
    /\ obj' = [columns |-> columns]
    /\ pc' = "new"
    /\ UNCHANGED <<fit0, inp, arg, out, again>>

AltLearned(o) ==
    [max_altitude |-> o.max_altitude, most_frequent |-> o.most_frequent, mean |-> o.mean]

AltitudeTrans_fit(X) ==
    /\ kind = "AltitudeTrans"
    /\ pc = "new"
    /\ LET p == AltFitParams(obj.columns, X)
       IN  obj' = [columns |-> obj.columns, max_altitude |-> p.max_altitude,
                   most_frequent |-> p.most_frequent, mean |-> p.mean]
    /\ pc' = "fitted"
    /\ fit0' = X
    /\ UNCHANGED <<kind, inp, arg, out, again>>

AltitudeTrans_transform_refit(X) ==
    /\ kind = "AltitudeTrans"
    /\ pc = "fitted"
    /\ LET p == AltFitParams(obj.columns, X)
       IN  /\ obj' = [columns |-> obj.columns, max_altitude |-> p.max_altitude,
                      most_frequent |-> p.most_frequent, mean |-> p.mean]
           /\ out' = AltApply(p, obj.columns, X)
           /\ arg' = AltCaller(p, obj.columns, X)
    /\ inp' = X
    /\ again' = FALSE
    /\ UNCHANGED <<kind, pc, fit0>>

AltitudeTrans_transform(X) ==
    /\ kind = "AltitudeTrans"
    /\ pc = "fitted"
    /\ inp' = X
    /\ arg' = AltCaller(AltLearned(obj), obj.columns, X)
    /\ out' = AltApply(AltLearned(obj), obj.columns, X)
    /\ again' = FALSE
    /\ UNCHANGED <<kind, obj, pc, fit0>>

\* bounds of the tables AltitudeTrans is exercised on
AltRows == 2
AltCells == {NaN, Num(-1), Num(0), Num(2)}

AltTables ==
    {[n |-> AltRows, col |-> f] : f \in [SeqRange(AltColumns) -> [1..AltRows -> AltCells]]}

NextAlt ==
    \/ AltitudeTrans_init(AltColumns)
    \/ pc = "new" /\ \E X \in AltTables : AltitudeTrans_fit(X)
    \/ out = NoResult /\ pc = "fitted" /\ \E X \in AltTables : AltitudeTrans_transform(X)

\* construct, fit once, transform once
SpecAlt == InitNone /\ [][NextAlt]_vars

\* C4: after transform every designated altitude cell is at most the column's
\* learned max and is not negative.
C4_AltitudeCappedAndNonNegative ==
    (kind = "AltitudeTrans" /\ out.status = "ok") =>
        \A c \in SeqRange(obj.columns) : \A i \in Index(out.table) :
            LET v == out.table.col[c][i]
            IN  (IsNum(v) /\ IsNum(obj.max_altitude[c])) =>
                    /\ ~Less(obj.max_altitude[c], v)
                    /\ ~Less(v, Num(0))

\* what C5 states for one cell v of column c
C5_Expected(c, v) ==
    LET clipped == IF IsNum(v) /\ IsNum(obj.max_altitude[c]) /\ Less(obj.max_altitude[c], v)
                   THEN obj.max_altitude[c] ELSE v
        replaced == IF IsNum(clipped) /\ Less(clipped, Num(0))
                    THEN obj.most_frequent[c][1] ELSE clipped
    IN  IF IsNa(replaced) THEN obj.mean[c] ELSE replaced

\* C5: per designated column and per row: above max becomes the max, negative
\* becomes the column's most frequent value, still missing becomes the
\* column's own mean, anything else is unchanged.  Stated for fits that
\* learned a most frequent value and a mean for every designated column.
C5_PerColumnPerRowRule ==
    (/\ kind = "AltitudeTrans" /\ out.status = "ok"
     /\ \A c \in SeqRange(obj.columns) :
            IsNum(obj.mean[c]) /\ Len(obj.most_frequent[c]) > 0
                /\ IsNum(obj.most_frequent[c][1])) =>
        \A c \in SeqRange(obj.columns) : \A i \in Index(out.table) :
            out.table.col[c][i] = C5_Expected(c, inp.col[c][i])

----------------------------------------------------------------------------
(* PartialStandardScaler *)

None == [k |-> "none"]

\* pd.api.types.is_numeric_dtype: a column holding a string has dtype object
IsNumericColumn(s) == \A i \in DOMAIN s : s[i].k # "str"

\* X.apply(lambda x: pd.api.types.is_numeric_dtype(x)).all(): every column of X
AllNumeric(X) == \A c \in Columns(X) : IsNumericColumn(X.col[c])

\* X.columns.to_list(), in the order the model gives every table
ColumnList(X) == ColumnOrder(Columns(X))

\* population variance of the present values, NaN when there is none
Var(s) ==
    IF Present(s) = {} THEN NaN
    ELSE LET m == Mean(s)
             sq == [i \in DOMAIN s |-> IF IsNum(s[i]) THEN Mul(Sub(s[i], m), Sub(s[i], m)) ELSE NaN]
         IN  Mean(sq)

\* np.sqrt(var_) with zeros replaced by 1, kept symbolic
Scale(var) ==
    IF IsNa(var) THEN NaN
    ELSE [k |-> "sqrt", of |-> IF var = Num(0) THEN Num(1) ELSE var]

\* StandardScaler.fit on the selected columns
ScalerFitParams(columns, with_mean, with_std, X) ==
    LET cs == SeqRange(columns)
    IN  [feature_names_in_ |-> columns,
         mean_ |-> IF with_mean \/ with_std THEN [c \in cs |-> Mean(X.col[c])] ELSE None,
         var_ |-> IF with_mean \/ with_std THEN [c \in cs |-> Var(X.col[c])] ELSE None,
         scale_ |-> IF with_std THEN [c \in cs |-> Scale(Var(X.col[c]))] ELSE None]

\* one cell of StandardScaler.transform
Standardized(v, c, o) ==
    LET centered == IF ~o.with_mean THEN v
                    ELSE IF IsNum(v) /\ IsNum(o.standardizer.mean_[c])
                         THEN Sub(v, o.standardizer.mean_[c]) ELSE NaN
    IN  IF ~o.with_std THEN centered
        ELSE IF IsNum(centered) /\ ~IsNa(o.standardizer.scale_[c])
             THEN [k |-> "scaled", num |-> centered, by |-> o.standardizer.scale_[c]]
             ELSE NaN

\* pd.concat([X.drop(self.columns, axis=1), X_standardized], axis=1)
ScalerApply(o, X) ==
    IF ~AllNumeric(X) THEN Raised("AssertionError")
    ELSE IF ~(SeqRange(o.columns) \subseteq Columns(X)) THEN Raised("KeyError")
    ELSE Ok([n |-> X.n,
             col |-> [c \in Columns(X) |->
                        IF c \in SeqRange(o.columns)
                        THEN [i \in Index(X) |-> Standardized(X.col[c][i], c, o)]
                        ELSE X.col[c]]])

PartialStandardScaler_init(columns, with_mean, with_std) ==
    /\ kind = "none"
    /\ kind' = "PartialStandardScaler"
    /\ obj' = [columns |-> columns, with_mean |-> with_mean, with_std |-> with_std,
               standardizer |-> None]
    /\ pc' = "new"
    /\ UNCHANGED <<fit0, inp, arg, out, again>>

\* the column list fit leaves in self.columns
ScalerColumns(o, X) == IF o.columns = "all" THEN ColumnList(X) ELSE o.columns

PartialStandardScaler_fit(X) ==
    /\ kind = "PartialStandardScaler"
    /\ pc = "new"
    /\ fit0' = X
    /\ LET columns == ScalerColumns(obj, X)
       IN  IF ~AllNumeric(X)
           THEN /\ obj' = [obj EXCEPT !.columns = columns]
                /\ out' = Raised("AssertionError")
                /\ pc' = "raised"
           ELSE IF ~(SeqRange(columns) \subseteq Columns(X))
           THEN /\ obj' = [obj EXCEPT !.columns = columns]
                /\ out' = Raised("KeyError")
                /\ pc' = "raised"
           ELSE /\ obj' = [obj EXCEPT !.columns = columns,
                                      !.standardizer =
                                          ScalerFitParams(columns, obj.with_mean, obj.with_std, X)]
                /\ out' = out
                /\ pc' = "fitted"
    /\ UNCHANGED <<kind, inp, arg, again>>

PartialStandardScaler_transform(X) ==
    /\ kind = "PartialStandardScaler"
    /\ pc = "fitted"
    /\ inp' = X
    /\ arg' = X
    /\ out' = ScalerApply(obj, X)
    /\ again' = FALSE
    /\ UNCHANGED <<kind, obj, pc, fit0>>

\* bounds of the tables PartialStandardScaler is exercised on
ScalerRows == 2
ScalerCells ==
    [piezo_station_altitude |-> {NaN, Num(1), Num(3), Str("x")},
     piezo_station_department_code |-> {Num(1), Str("2A")}]
ScalerSelections ==
    {"all", <<"piezo_station_altitude">>,
     <<"piezo_station_altitude", "piezo_station_department_code">>}

ScalerTables ==
    {[n |-> ScalerRows, col |-> f] :
        f \in {g \in [DOMAIN ScalerCells -> [1..ScalerRows -> UNION {ScalerCells[c] : c \in DOMAIN ScalerCells}]] :
                  \A c \in DOMAIN ScalerCells : \A i \in 1..ScalerRows : g[c][i] \in ScalerCells[c]}}

NextScaler ==
    \/ \E cs \in ScalerSelections, m, sd \in BOOLEAN : PartialStandardScaler_init(cs, m, sd)
    \/ pc = "new" /\ \E X \in ScalerTables : PartialStandardScaler_fit(X)
    \/ out = NoResult /\ pc = "fitted" /\ \E X \in ScalerTables : PartialStandardScaler_transform(X)

\* construct, fit once, transform once
SpecScaler == InitNone /\ [][NextScaler]_vars

\* every selected column of X is numeric
IsNumericSelected(X, columns) ==
    \A c \in SeqRange(columns) \cap Columns(X) : IsNumericColumn(X.col[c])

\* C7: fit and transform raise the assertion exactly when some selected
\* column is non-numeric; otherwise they succeed and the columns outside the
\* selection are unchanged in the output.
C7_AssertsOnSelectedColumnsOnly ==
    (kind = "PartialStandardScaler" /\ pc \in {"fitted", "raised"}) =>
        /\ (pc = "raised") <=> ~IsNumericSelected(fit0, obj.columns)
        /\ (pc = "fitted" /\ out # NoResult) =>
               /\ (out.status = "AssertionError") <=> ~IsNumericSelected(inp, obj.columns)
               /\ out.status = "ok" =>
                      \A c \in Columns(inp) \ SeqRange(obj.columns) :
                          out.table.col[c] = inp.col[c]

----------------------------------------------------------------------------
(* Frozen statistics: AltitudeTrans and PartialStandardScaler reused across
   transform calls *)

\* bounds of the tables the fitted objects are reused on
LeakRows == 2
LeakCells == [piezo_station_altitude |-> {NaN, Num(-1), Num(2)},
              meteo_altitude |-> {NaN, Num(1)}]
LeakSelections == {"all", <<"piezo_station_altitude">>}

\* the first column takes every pattern of cells, the second is uniform
LeakTables ==
    {[n |-> LeakRows,
      col |-> [c \in SeqRange(AltColumns) |->
                 IF c = "piezo_station_altitude" THEN a ELSE [i \in 1..LeakRows |-> b]]] :
        a \in [1..LeakRows -> LeakCells.piezo_station_altitude],
        b \in LeakCells.meteo_altitude}

NextLeak ==
    \/ AltitudeTrans_init(AltColumns)
    \/ \E cs \in LeakSelections : PartialStandardScaler_init(cs, TRUE, TRUE)
    \/ \E X \in LeakTables : AltitudeTrans_fit(X)
    \/ \E X \in LeakTables : PartialStandardScaler_fit(X)
    \/ \E X \in LeakTables : AltitudeTrans_transform(X)
    \/ \E X \in LeakTables : PartialStandardScaler_transform(X)

\* construct, fit once, then any number of transform calls
SpecLeak == InitNone /\ [][NextLeak]_vars

\* C1: once fitted on fit0, any sequence of transform calls leaves the learned
\* parameters equal to those computed from fit0, and every transform result
\* is the one those parameters give for the table passed.
C1_LearnedParametersFrozen ==
    /\ (kind = "AltitudeTrans" /\ pc = "fitted") =>
           /\ AltLearned(obj) = AltFitParams(AltColumns, fit0)
           /\ out # NoResult => out = AltApply(AltFitParams(AltColumns, fit0), AltColumns, inp)
    /\ (kind = "PartialStandardScaler" /\ pc = "fitted") =>
           /\ obj.standardizer = ScalerFitParams(obj.columns, TRUE, TRUE, fit0)
           /\ out # NoResult =>
                  out = ScalerApply([obj EXCEPT !.standardizer =
                                        ScalerFitParams(obj.columns, TRUE, TRUE, fit0)], inp)

\* C1 witness: a fitted altitude cleaner has transformed a table other than
\* fit0 whose own max exceeds the learned one, and the result is capped at
\* the learned max.
C1_Witness ==
    /\ kind = "AltitudeTrans" /\ pc = "fitted" /\ out.status = "ok" /\ inp # fit0
    /\ LET c == "piezo_station_altitude"
           own == AltFitParams(AltColumns, inp)
       IN  /\ IsNum(obj.max_altitude[c]) /\ IsNum(own.max_altitude[c])
           /\ Less(obj.max_altitude[c], own.max_altitude[c])
           /\ own.mean # obj.mean
           /\ \A i \in Index(out.table) : out.table.col[c][i] = obj.max_altitude[c]

----------------------------------------------------------------------------
(* MissingCat *)

MissingCat_init(columns) ==
    /\ kind = "none"
    /\ kind' = "MissingCat"
    /\ obj' = [columns |-> columns]
    /\ pc' = "new"
    /\ UNCHANGED <<fit0, inp, arg, out, again>>

MissingCat_fit(X) ==
    /\ kind = "MissingCat"
    /\ pc = "new"
    /\ pc' = "fitted"
    /\ fit0' = X
    /\ UNCHANGED <<kind, obj, inp, arg, out, again>>

\* X.copy().fillna('missing', axis=1): a scalar fills every column
MissingCat_transform(X) ==
    /\ kind = "MissingCat"
    /\ pc = "fitted"
    /\ inp' = X
    /\ arg' = X
    /\ out' = Ok(FillNaAll(X, Str("missing")))
    /\ again' = FALSE
    /\ UNCHANGED <<kind, obj, pc, fit0>>

\* bounds of the tables MissingCat is exercised on
CatRows == 2
CatCells == [piezo_station_bss_code |-> {NaN, Str("a")},
             meteo_rain_height |-> {NaN, Num(0)}]
CatSelections == {<<"piezo_station_bss_code">>, << >>}

CatTables ==
    {[n |-> CatRows,
      col |-> [c \in DOMAIN CatCells |-> IF c = "meteo_rain_height" THEN a ELSE b]] :
        a \in [1..CatRows -> CatCells.meteo_rain_height],
        b \in [1..CatRows -> CatCells.piezo_station_bss_code]}

NextCat ==
    \/ \E cs \in CatSelections : MissingCat_init(cs)
    \/ pc = "new" /\ \E X \in CatTables : MissingCat_fit(X)
    \/ out = NoResult /\ pc = "fitted" /\ \E X \in CatTables : MissingCat_transform(X)

\* construct, fit once, transform once
SpecCat == InitNone /\ [][NextCat]_vars

\* C6: transform puts 'missing' in the designated columns only; every other
\* column, its missing entries included, is the same in output and input.
C6_OnlyDesignatedColumnsFilled ==
    (kind = "MissingCat" /\ out.status = "ok") =>
        /\ \A c \in Columns(inp) \ SeqRange(obj.columns) : out.table.col[c] = inp.col[c]
        /\ \A c \in Columns(inp) \cap SeqRange(obj.columns) :
               out.table.col[c] = FillNa(inp.col[c], Str("missing"))

----------------------------------------------------------------------------
(* DateTransformer and DropCols *)

\* Column names are spelled out here, character by character, because fit
\* searches them for a substring.
meteo_date == <<"m", "e", "t", "e", "o", "_", "d", "a", "t", "e">>
piezo_measurement_date ==
    <<"p", "i", "e", "z", "o", "_", "m", "e", "a", "s", "u", "r", "e", "m", "e", "n", "t",
      "_", "d", "a", "t", "e">>
meteo_time_tx == <<"m", "e", "t", "e", "o", "_", "t", "i", "m", "e", "_", "t", "x">>
meteo_rain_height ==
    <<"m", "e", "t", "e", "o", "_", "r", "a", "i", "n", "_", "h", "e", "i", "g", "h", "t">>

\* sub in name
Contains(name, sub) ==
    \E i \in 1..(Len(name) - Len(sub) + 1) : SubSeq(name, i, i + Len(sub) - 1) = sub

HasDate(name) == Contains(name, <<"d", "a", "t", "e">>)
HasTime(name) == Contains(name, <<"t", "i", "m", "e">>)

\* the text "y-m-dd" of a date, valid or not
DateText(y, m, dd) == [k |-> "text", y |-> y, m |-> m, dd |-> dd]

IsLeap(y) == y % 4 = 0 /\ (y % 100 # 0 \/ y % 400 = 0)

DaysIn(y, m) ==
    IF m = 2 THEN (IF IsLeap(y) THEN 29 ELSE 28)
    ELSE IF m \in {4, 6, 9, 11} THEN 30 ELSE 31

\* pd.to_datetime(..., errors='coerce'): NaN (NaT) for what is not a date
ToDatetime(v) ==
    IF v.k = "text" /\ v.m \in 1..12 /\ v.dd >= 1 /\ v.dd <= DaysIn(v.y, v.m)
    THEN v ELSE NaN

RECURSIVE DaysBefore(_, _)
DaysBefore(y, m) == IF m = 1 THEN 0 ELSE DaysIn(y, m - 1) + DaysBefore(y, m - 1)

\* .dt.dayofyear: 1 on 1 January
DayOfYear(t) == DaysBefore(t.y, t.m) + t.dd

\* 4 * 365.25 and the hours of a day
QuarterDaysPerYear == 1461
HoursPerDay == 24

\* cos(2 pi t) for a rational number t of turns, kept symbolic
Cos(t) == [k |-> "cos", turns |-> t]

DayAngleOneBased(x) == Rat(4 * x, QuarterDaysPerYear)

\* (x - 1) * 2 * np.pi / 365.25, in turns
DayAngle(x) == Rat(4 * (x - 1), QuarterDaysPerYear)

\* one cell of the meteo_date column.  A cell that is already a number is
\* read by to_datetime as an offset from the epoch; its cosine stays symbolic.
DateEncode(v) ==
    IF v.k \in {"num", "cos", "recos"} THEN [k |-> "recos", of |-> v]
    ELSE IF IsNa(ToDatetime(v)) THEN NaN
    ELSE Cos(DayAngle(DayOfYear(ToDatetime(v))))

\* np.cos(x * 2 * np.pi / 24) for one cell
TimeEncode(v) ==
    IF IsNum(v) THEN Cos(Mul(v, Rat(1, HoursPerDay)))
    ELSE IF IsNa(v) THEN NaN
    ELSE [k |-> "cos24", of |-> v]

\* the loop over self.date_cols, for columns that are all present
RECURSIVE DateLoop(_, _)
DateLoop(X, cols) ==
    IF cols = {} THEN X
    ELSE LET c == CHOOSE x \in cols : TRUE
         IN  DateLoop(IF c = meteo_date
                      THEN SetCol(X, c, [i \in Index(X) |-> DateEncode(X.col[c][i])])
                      ELSE Drop(X, {c}),
                      cols \ {c})

\* the loop over self.time_cols, for columns that are all present
RECURSIVE TimeLoop(_, _)
TimeLoop(X, cols) ==
    IF cols = {} THEN X
    ELSE LET c == CHOOSE x \in cols : TRUE
         IN  TimeLoop(SetCol(X, c, [i \in Index(X) |-> TimeEncode(X.col[c][i])]), cols \ {c})

\* X[col] and X.drop(col, axis=1) raise KeyError on an absent column
DateApply(o, X) ==
    IF ~(o.date_cols \subseteq Columns(X)) THEN Raised("KeyError")
    ELSE LET X1 == DateLoop(X, o.date_cols)
         IN  IF ~(o.time_cols \subseteq Columns(X1)) THEN Raised("KeyError")
             ELSE Ok(TimeLoop(X1, o.time_cols))

DateTransformer_init ==
    /\ kind = "none"
    /\ kind' = "DateTransformer"
    /\ obj' = [date_cols |-> {}, time_cols |-> {}]
    /\ pc' = "new"
    /\ UNCHANGED <<fit0, inp, arg, out, again>>

DateTransformer_fit(X) ==
    /\ kind = "DateTransformer"
    /\ pc = "new"
    /\ obj' = [date_cols |-> {c \in Columns(X) : HasDate(c)},
               time_cols |-> {c \in Columns(X) : HasTime(c)}]
    /\ pc' = "fitted"
    /\ fit0' = X
    /\ UNCHANGED <<kind, inp, arg, out, again>>

DateTransformer_transform(X, rerun) ==
    /\ kind = "DateTransformer"
    /\ pc = "fitted"
    /\ inp' = X
    /\ arg' = X
    /\ out' = DateApply(obj, X)
    /\ again' = rerun
    /\ UNCHANGED <<kind, obj, pc, fit0>>

DropCols_init(columns) ==
    /\ kind = "none"
    /\ kind' = "DropCols"
    /\ obj' = [columns |-> columns]
    /\ pc' = "new"
    /\ UNCHANGED <<fit0, inp, arg, out, again>>

DropCols_fit(X) ==
    /\ kind = "DropCols"
    /\ pc = "new"
    /\ pc' = "fitted"
    /\ fit0' = X
    /\ UNCHANGED <<kind, obj, inp, arg, out, again>>

\* X.drop(columns=self.columns, errors='ignore')
DropCols_transform(X, rerun) ==
    /\ kind = "DropCols"
    /\ pc = "fitted"
    /\ inp' = X
    /\ arg' = X
    /\ out' = Ok(Drop(X, SeqRange(obj.columns)))
    /\ again' = rerun
    /\ UNCHANGED <<kind, obj, pc, fit0>>

\* bounds of the tables DateTransformer and DropCols are exercised on
DateRows == 2
DateCells(c) ==
    IF c = meteo_date
    THEN {NaN, Str("n/a"), DateText(2021, 1, 1), DateText(2021, 3, 1), DateText(2021, 12, 31),
          DateText(2020, 12, 31), DateText(2021, 2, 29)}
    ELSE IF c = piezo_measurement_date THEN {DateText(2021, 1, 1)}
    ELSE IF c = meteo_time_tx THEN {NaN, Num(6)}
    ELSE {Num(0)}
\* meteo_rain_height with any of the date and time columns
DateSchemas ==
    {cs \cup {meteo_rain_height} :
        cs \in SUBSET {meteo_date, piezo_measurement_date, meteo_time_tx}}
DropSelections == {<<meteo_rain_height>>, <<piezo_measurement_date, meteo_time_tx>>}

\* every table over a set of the columns
DateTables ==
    {[n |-> DateRows,
      col |-> [c \in cs |->
                 IF c = meteo_date THEN a
                 ELSE IF c = piezo_measurement_date THEN b
                 ELSE IF c = meteo_time_tx THEN t ELSE r]] :
        cs \in DateSchemas,
        a \in [1..DateRows -> DateCells(meteo_date)],
        b \in [1..DateRows -> DateCells(piezo_measurement_date)],
        t \in [1..DateRows -> DateCells(meteo_time_tx)],
        r \in [1..DateRows -> DateCells(meteo_rain_height)]}

\* fit reads X.columns only: one table for each set of columns
DateFitTables ==
    {[n |-> DateRows,
      col |-> [c \in cs |-> [i \in 1..DateRows |-> CHOOSE v \in DateCells(c) : v # NaN]]] :
        cs \in DateSchemas}

NextDate ==
    \/ DateTransformer_init
    \/ \E cs \in DropSelections : DropCols_init(cs)
    \/ pc = "new" /\ \E X \in DateFitTables : DateTransformer_fit(X)
    \/ pc = "new" /\ \E X \in DateFitTables : DropCols_fit(X)
    \/ out = NoResult /\ pc = "fitted" /\ \E X \in DateTables : DateTransformer_transform(X, FALSE)
    \/ out = NoResult /\ pc = "fitted" /\ \E X \in DateTables : DropCols_transform(X, FALSE)
    \/ out.status = "ok" /\ ~again /\ DateTransformer_transform(out.table, TRUE)
    \/ out.status = "ok" /\ ~again /\ DropCols_transform(out.table, TRUE)

\* construct, fit once, transform a table, transform the result
SpecDate == InitNone /\ [][NextDate]_vars

\* the stage has nothing left to act on in table X
NoTrigger(X) ==
    IF kind = "DateTransformer"
    THEN \A c \in Columns(X) : ~HasDate(c) /\ ~HasTime(c)
    ELSE SeqRange(obj.columns) \cap Columns(X) = {}

\* C8: when the result of transform holds no column the stage would act on,
\* transforming that result again succeeds and returns the same table.
C8_SecondTransformIsIdentity ==
    (kind \in {"DateTransformer", "DropCols"} /\ again /\ NoTrigger(inp)) =>
        out = Ok(inp)

\* day of the year of the dates in DateCells, counted by hand
C9_DayOfYear(v) ==
    IF v = DateText(2021, 1, 1) THEN 1
    ELSE IF v = DateText(2021, 3, 1) THEN 60
    ELSE IF v = DateText(2021, 12, 31) THEN 365
    ELSE IF v = DateText(2020, 12, 31) THEN 366
    ELSE 0

\* C9 as stated: cos(2 pi d / 365.25) with d the 1-based day of the year, a
\* missing value for what is not a date, no other date-named column left.
\* Stated for a table that has the columns of the fit table.
C9_CosOfDayOfYear ==
    (kind = "DateTransformer" /\ out.status = "ok" /\ ~again
        /\ Columns(inp) = Columns(fit0) /\ meteo_date \in Columns(inp)) =>
        /\ \A i \in Index(inp) :
               LET v == inp.col[meteo_date][i]
               IN  out.table.col[meteo_date][i] =
                       IF C9_DayOfYear(v) = 0 THEN NaN
                       ELSE Cos(Rat(4 * C9_DayOfYear(v), 1461))
        /\ \A c \in Columns(out.table) : HasDate(c) => c = meteo_date

\* C9 amended: cos(2 pi (d - 1) / 365.25) for a meteo_date column seen at
\* fit; what is not a date becomes missing and never raises; the other
\* date-named columns seen at fit are absent from the output.
C9_CosOfDayOfYearMinusOne ==
    (kind = "DateTransformer" /\ pc = "fitted" /\ out # NoResult /\ ~again) =>
        /\ (obj.date_cols \cup obj.time_cols \subseteq Columns(inp)) => out.status = "ok"
        /\ (out.status = "ok" /\ meteo_date \in obj.date_cols) =>
               \A i \in Index(inp) :
                   LET v == inp.col[meteo_date][i]
                   IN  out.table.col[meteo_date][i] =
                           IF C9_DayOfYear(v) = 0 THEN NaN
                           ELSE Cos(Rat(4 * (C9_DayOfYear(v) - 1), 1461))
        /\ out.status = "ok" =>
               \A c \in obj.date_cols \ {meteo_date} : c \notin Columns(out.table)

\* C9 witness: 1 January, 31 December of a leap year and something that is
\* no date were encoded, and another date column was dropped.
C9_Witness ==
    /\ kind = "DateTransformer" /\ out.status = "ok" /\ ~again
    /\ piezo_measurement_date \in Columns(inp) \ Columns(out.table)
    /\ meteo_date \in obj.date_cols
    /\ inp.col[meteo_date][1] = DateText(2021, 1, 1)
    /\ out.table.col[meteo_date][1] = Cos(Num(0))
    /\ \E i \in Index(inp) :
           /\ inp.col[meteo_date][i] \in {Str("n/a"), DateText(2021, 2, 29)}
           /\ out.table.col[meteo_date][i] = NaN

----------------------------------------------------------------------------
(* TemperaturePressionTrans *)

TempKeyColumns == <<"piezo_station_department_code", "piezo_measurement_date">>
TempColumns == <<"meteo_temperature_avg", "meteo_temperature_min", "meteo_temperature_max">>

\* X[col].isna().sum()
NaCount(s) == Cardinality({i \in DOMAIN s : IsNa(s[i])})

\* X[col].isna().sum() > 0.6 * len(X)
AboveThreshold(X, c) == 10 * NaCount(X.col[c]) > 6 * X.n

\* the rows of the group of row i under groupby(keys): rows whose key is
\* missing belong to no group
Group(X, keys, i) ==
    IF \E q \in SeqRange(keys) : IsNa(X.col[q][i]) THEN {}
    ELSE {j \in Index(X) : \A q \in SeqRange(keys) : X.col[q][j] = X.col[q][i]}

\* X.groupby(keys)[column].transform('mean') of the column s
GroupMeans(X, keys, s) ==
    [i \in Index(X) |->
        LET present == Group(X, keys, i) \cap Present(s)
        IN  IF present = {} THEN NaN
            ELSE Mul(SumAt(s, present), Rat(1, Cardinality(present)))]

\* Series.fillna(other Series)
FillNaWith(s, other) == [i \in DOMAIN s |-> IF IsNa(s[i]) THEN other[i] ELSE s[i]]

TempFillColumnFromInput(X, s) ==
    IF NaCount(s) > 0
    THEN FillNaWith(FillNaWith(s, GroupMeans(X, TempKeyColumns, s)),
                    GroupMeans(X, <<TempKeyColumns[2]>>, s))
    ELSE s

\* the two fills of one column s of X
TempFillColumn(X, s) ==
    IF NaCount(s) > 0
    THEN LET byDepartment == FillNaWith(s, GroupMeans(X, TempKeyColumns, s))
         IN  FillNaWith(byDepartment, GroupMeans(X, <<TempKeyColumns[2]>>, byDepartment))
    ELSE s

TempApply(columns, X) ==
    LET relevant_cols == SeqRange(columns) \cap Columns(X)
        cols_to_drop == {c \in relevant_cols : AboveThreshold(X, c)}
        kept == relevant_cols \ cols_to_drop
    IN  IF \E c \in kept : NaCount(X.col[c]) > 0 /\ ~(SeqRange(TempKeyColumns) \subseteq Columns(X))
        THEN Raised("KeyError")
        ELSE Ok([n |-> X.n,
                 col |-> [c \in Columns(X) \ cols_to_drop |->
                            IF c \in kept THEN TempFillColumn(X, X.col[c]) ELSE X.col[c]]])

TemperaturePressionTrans_init(columns) ==
    /\ kind = "none"
    /\ kind' = "TemperaturePressionTrans"
    /\ obj' = [columns |-> columns]
    /\ pc' = "new"
    /\ UNCHANGED <<fit0, inp, arg, out, again>>

TemperaturePressionTrans_fit(X) ==
    /\ kind = "TemperaturePressionTrans"
    /\ pc = "new"
    /\ pc' = "fitted"
    /\ fit0' = X
    /\ UNCHANGED <<kind, obj, inp, arg, out, again>>

TemperaturePressionTrans_transform(X) ==
    /\ kind = "TemperaturePressionTrans"
    /\ pc = "fitted"
    /\ inp' = X
    /\ arg' = X
    /\ out' = TempApply(obj.columns, X)
    /\ again' = FALSE
    /\ UNCHANGED <<kind, obj, pc, fit0>>

\* bounds of the tables TemperaturePressionTrans is exercised on
TempRows == 4
\* (department, date) of a row: three departments, one of them missing, on
\* one date, and a second date
TempKeys ==
    {<<Str("01"), Str("2021-01-01")>>, <<Str("02"), Str("2021-01-01")>>,
     <<NaN, Str("2021-01-01")>>, <<Str("01"), Str("2021-01-02")>>}
TempCells == {NaN, Num(0), Num(2)}
TempUniformCells == {Num(5)}

\* meteo_temperature_avg takes every pattern of cells, meteo_temperature_min
\* is uniform and present, meteo_temperature_max is absent
TempTables ==
    {[n |-> TempRows,
      col |-> [c \in {TempKeyColumns[1], TempKeyColumns[2], TempColumns[1], TempColumns[2]} |->
                 [i \in 1..TempRows |->
                    IF c = TempKeyColumns[1] THEN key[i][1]
                    ELSE IF c = TempKeyColumns[2] THEN key[i][2]
                    ELSE IF c = TempColumns[1] THEN avg[i] ELSE min]]] :
        key \in [1..TempRows -> TempKeys],
        avg \in [1..TempRows -> TempCells],
        min \in TempUniformCells}

\* fit reads nothing of X
TempFitTables == {NoTable}

NextTemp ==
    \/ TemperaturePressionTrans_init(TempColumns)
    \/ pc = "new" /\ \E X \in TempFitTables : TemperaturePressionTrans_fit(X)
    \/ out = NoResult /\ pc = "fitted"
           /\ \E X \in TempTables : TemperaturePressionTrans_transform(X)

\* construct, fit once, transform once
SpecTemp == InitNone /\ [][NextTemp]_vars

\* rows of X with the department and date of row i (both present) whose cell
\* in the column s is present
C10_SameDepartmentAndDate(X, s, i) ==
    {j \in Index(X) :
        /\ IsNum(s[j])
        /\ \A q \in {"piezo_station_department_code", "piezo_measurement_date"} :
               ~IsNa(X.col[q][i]) /\ X.col[q][j] = X.col[q][i]}

\* rows of X with the date of row i (present) whose cell in s is present
C10_SameDate(X, s, i) ==
    {j \in Index(X) :
        /\ IsNum(s[j])
        /\ ~IsNa(X.col["piezo_measurement_date"][i])
        /\ X.col["piezo_measurement_date"][j] = X.col["piezo_measurement_date"][i]}

C10_MeanOver(s, rows) ==
    IF rows = {} THEN NaN ELSE Mul(SumAt(s, rows), Rat(1, Cardinality(rows)))

\* the column after the department-and-date fill
C10_AfterFirstFill(X, s) ==
    [i \in Index(X) |->
        IF IsNum(s[i]) THEN s[i] ELSE C10_MeanOver(s, C10_SameDepartmentAndDate(X, s, i))]

\* the configured columns of the input that the 60% rule keeps
C10_Surviving ==
    {c \in SeqRange(obj.columns) \cap Columns(inp) :
        5 * Cardinality(MissingIn(inp, c)) <= 3 * inp.n}

\* C10 as stated: a present value is unchanged; a missing value takes the
\* mean of its (department, date) group when that group has a present value,
\* otherwise the mean of the input column over the rows of its date, and
\* stays missing only when no row of that date has a present value.
C10_TwoLevelFillFromInput ==
    (kind = "TemperaturePressionTrans" /\ out.status = "ok") =>
        \A c \in C10_Surviving : \A i \in Index(inp) :
            LET s == inp.col[c]
                o == out.table.col[c][i]
            IN  IF IsNum(s[i]) THEN o = s[i]
                ELSE IF C10_SameDepartmentAndDate(inp, s, i) # {}
                THEN o = C10_MeanOver(s, C10_SameDepartmentAndDate(inp, s, i))
                ELSE o = C10_MeanOver(s, C10_SameDate(inp, s, i))

\* C10 amended: the second level is the mean, over the rows of the same
\* date, of the column as it stands after the first fill; a row whose
\* department or date is missing belongs to no group of that level.
C10_TwoLevelFillSequential ==
    (kind = "TemperaturePressionTrans" /\ out # NoResult) =>
        /\ out.status = "ok"
        /\ Columns(out.table) = Columns(inp) \ (SeqRange(obj.columns) \ C10_Surviving)
        /\ \A c \in C10_Surviving : \A i \in Index(inp) :
               LET s == inp.col[c]
                   s1 == C10_AfterFirstFill(inp, s)
                   o == out.table.col[c][i]
               IN  IF IsNum(s[i]) THEN o = s[i]
                   ELSE IF C10_SameDepartmentAndDate(inp, s, i) # {}
                   THEN o = C10_MeanOver(s, C10_SameDepartmentAndDate(inp, s, i))
                   ELSE o = C10_MeanOver(s1, C10_SameDate(inp, s1, i))

\* C10 witness: one missing value was filled from its department and date,
\* another from its date alone with a mean that is not the mean of the input
\* column over that date.
C10_Witness ==
    /\ kind = "TemperaturePressionTrans" /\ out.status = "ok"
    /\ LET c == "meteo_temperature_avg"
           s == inp.col[c]
       IN  /\ c \in Columns(out.table)
           /\ \E i \in Index(inp) :
                  /\ IsNa(s[i])
                  /\ C10_SameDepartmentAndDate(inp, s, i) # {}
                  /\ IsNum(out.table.col[c][i])
           /\ \E i \in Index(inp) :
                  /\ IsNa(s[i])
                  /\ C10_SameDepartmentAndDate(inp, s, i) = {}
                  /\ IsNum(out.table.col[c][i])
                  /\ out.table.col[c][i] # C10_MeanOver(s, C10_SameDate(inp, s, i))

====
